---- MODULE Spec2Model ----
(***************************************************************************)
(* A model of AntSolver (src/ant_solver.py): the ANT multi-agent graph     *)
(* colouring heuristic.  The constructor (__init__, random_node_coloring,  *)
(* init_solver) and the solve loop (one action per ant step, one per sweep *)
(* end, one per evaluation of the while condition) are modelled from the   *)
(* code.  Random draws and clock readings are nondeterministic choices.    *)
(* Display code (print_status, the prints of solve) has no effect on the   *)
(* solver's state and is left out.  A networkx graph is modelled by its    *)
(* node list (iteration order), its neighbour lists (iteration order) and  *)
(* the per-node attributes 'color' and 'cost'.                             *)
(***************************************************************************)
EXTENDS Integers, Sequences, FiniteSets, TLC

(* ------------------------------ bounds -------------------------------- *)

\* largest n_colors argument tried; caller-supplied colours are 0..MaxColors-1
MaxColors == 2
\* largest n_ants argument tried
MaxAnts == 2
\* sweeps explored in one run of solve (the code itself has no such limit)
MaxSweeps == 2

(* ------------------------------ inputs -------------------------------- *)

\* n_colors=None (the default of line 58)
None == <<>>

Path3 ==
    [nodes |-> <<0, 1, 2>>,
     adj |-> (0 :> <<1>>) @@ (1 :> <<2, 0>>) @@ (2 :> <<1>>)]

\* node 0 has no neighbour
Isolated3 ==
    [nodes |-> <<0, 1, 2>>,
     adj |-> (0 :> <<>>) @@ (1 :> <<2>>) @@ (2 :> <<1>>)]

\* no edge at all
Edgeless2 ==
    [nodes |-> <<0, 1>>,
     adj |-> (0 :> <<>>) @@ (1 :> <<>>)]

\* node identifiers that are not 0..N-1
Ids2 ==
    [nodes |-> <<1, 2>>,
     adj |-> (1 :> <<2>>) @@ (2 :> <<1>>)]

\* bipartite, two connected components
TwoEdges ==
    [nodes |-> <<0, 1, 2, 3>>,
     adj |-> (0 :> <<1>>) @@ (1 :> <<0>>) @@ (2 :> <<3>>) @@ (3 :> <<2>>)]

\* the graphs g handed to the constructor
Graphs == {Path3, Isolated3, Edgeless2, Ids2}

\* the same with the graph of two components
MoreGraphs == Graphs \cup {TwoEdges}

\* np.random.random() lies in [0, 1): the draws, in tenths
Draws == 0 .. 9

\* (pc, pn) in tenths: 0.5 is inside (0, 1); 1.0 and 0.0 are not
Probabilities == {<<5, 5>>, <<10, 0>>}

\* max_iters: line 220 is never executed, so that the loop goes the same way
\* for every max_iters >= 1
Iterations == {0, 1}

\* max_time, and the readings of perf_counter()-tic, in clock ticks
MaxTimes == {1}
Readings == {0, 2}

(* ------------------------- graph operations --------------------------- *)

Range(s) == {s[k] : k \in 1 .. Len(s)}

\* g.nodes_iter() as a set
Nodes(G) == Range(G.nodes)

\* nx.neighbors(g, n): the neighbour list, in iteration order
neighbors(G, n) == G.adj[n]

\* g.number_of_nodes()
number_of_nodes(G) == Len(G.nodes)

RECURSIVE SeqSum(_)
SeqSum(s) == IF s = <<>> THEN 0 ELSE Head(s) + SeqSum(Tail(s))

RECURSIVE SeqMax(_)
SeqMax(s) == IF Len(s) = 1 THEN s[1]
             ELSE LET m == SeqMax(Tail(s)) IN IF s[1] >= m THEN s[1] ELSE m

\* max(nx.degree(g).values())+1
max_c(G) == SeqMax([k \in 1 .. Len(G.nodes) |-> Len(G.adj[G.nodes[k]])]) + 1

\* g.subgraph(nbunch): the induced subgraph; the node attributes are shared
\* with g, so colours are read through the same colour map
subgraph(G, nbunch) ==
    [nodes |-> SelectSeq(G.nodes, LAMBDA n : n \in nbunch),
     adj |-> [n \in Nodes(G) \cap nbunch |->
                SelectSeq(G.adj[n], LAMBDA m : m \in nbunch)]]

\* a count that takes n itself for one of its neighbours
conflict_level_counting_itself(G, col, n) ==
    SeqSum([k \in 1 .. Len(neighbors(G, n)) |->
              IF col[n] = col[neighbors(G, n)[k]] THEN 1 ELSE 0]) + 1

\* conflict_level(g, n): how many neighbours of n have n's colour
conflict_level(G, col, n) ==
    SeqSum([k \in 1 .. Len(neighbors(G, n)) |->
              IF col[n] = col[neighbors(G, n)[k]] THEN 1 ELSE 0])

\* local_potential(g, node)
local_potential(G, col, node) ==
    LET neigs == SeqSum([k \in 1 .. Len(neighbors(G, node)) |->
                           conflict_level(G, col, neighbors(G, node)[k])])
    IN  conflict_level(G, col, node) + neigs

\* an argmax that keeps the last of several greatest entries
argmax_last(s) ==
    CHOOSE k \in 1 .. Len(s) :
        /\ \A j \in 1 .. Len(s) : s[j] <= s[k]
        /\ \A j \in (k + 1) .. Len(s) : s[j] < s[k]

\* numpy argmax / argmin of a non-empty sequence: the first extremal index
argmax(s) ==
    CHOOSE k \in 1 .. Len(s) :
        /\ \A j \in 1 .. Len(s) : s[j] <= s[k]
        /\ \A j \in 1 .. (k - 1) : s[j] < s[k]

\* an argmin that keeps the last of several least entries
argmin_last(s) ==
    CHOOSE k \in 1 .. Len(s) :
        /\ \A j \in 1 .. Len(s) : s[j] >= s[k]
        /\ \A j \in (k + 1) .. Len(s) : s[j] > s[k]

argmin(s) ==
    CHOOSE k \in 1 .. Len(s) :
        /\ \A j \in 1 .. Len(s) : s[j] >= s[k]
        /\ \A j \in 1 .. (k - 1) : s[j] > s[k]

\* worst_adjacent_node(n, order_2), for n a node with at least one neighbour
worst_adjacent_node(G, col, cst, n, o2) ==
    LET adj_nodes == [k \in 1 .. Len(neighbors(G, n)) |->
                        IF o2 THEN local_potential(G, col, neighbors(G, n)[k])
                        ELSE cst[neighbors(G, n)[k]]]
    IN  neighbors(G, n)[argmax(adj_nodes)]

\* total_cost(): the sum of the cached costs
total_cost(G, cst) == SeqSum([k \in 1 .. Len(G.nodes) |-> cst[G.nodes[k]]])

\* the costs change_to_best collects, one per colour c in range(n_colors),
\* each computed with the ant's node set to c in the subgraph g_test
trial_costs(G, col, ant, nc, o2) ==
    LET g_test == subgraph(G, {ant} \cup Range(neighbors(G, ant)))
    IN  [c1 \in 1 .. nc |->
           LET trial == [col EXCEPT ![ant] = c1 - 1]
           IN  IF o2 THEN local_potential(g_test, trial, ant)
               ELSE conflict_level(g_test, trial, ant)]

\* a change_to_best that writes the colour it found on every node of g_test
change_to_best_on_all_of_g_test(G, col, ant, nc, o2) ==
    LET best_c == argmin(trial_costs(G, col, ant, nc, o2)) - 1
    IN  [n \in DOMAIN col |->
           IF n = ant \/ n \in Range(neighbors(G, ant)) THEN best_c ELSE col[n]]

\* change_to_best(ant, order_2), for n_colors >= 1: the colouring afterwards
change_to_best(G, col, ant, nc, o2) ==
    LET best_c == argmin(trial_costs(G, col, ant, nc, o2)) - 1
    IN  [col EXCEPT ![ant] = best_c]

\* the colourings change_to_random(ant) can leave, for n_colors >= 1
change_to_random(col, ant, nc) ==
    {[col EXCEPT ![ant] = c] : c \in 0 .. (nc - 1)}

\* a refresh that forgets the neighbours of n1
refresh_costs_of_n1_only(G, col, cst, n1) ==
    [n \in DOMAIN cst |-> IF n = n1 THEN conflict_level(G, col, n) ELSE cst[n]]

\* lines 208-210: the cached cost of n1 and of its neighbours is recomputed
refresh_costs(G, col, cst, n1) ==
    [n \in DOMAIN cst |->
        IF n = n1 \/ n \in Range(neighbors(G, n1))
        THEN conflict_level(G, col, n) ELSE cst[n]]

(* ----------------------------- one ant step -------------------------- *)

\* a worst neighbour taken among the neighbours of greatest metric without a
\* fixed rule for ties
moves_any_of_the_worst(G, col, cst, n0, o2, pcv) ==
    LET metric(m) == IF o2 THEN local_potential(G, col, m) ELSE cst[m]
        worst == IF n0 \notin Nodes(G)
                 THEN {[n1 |-> n0, move |-> "worst", exc |-> "NetworkXError"]}
                 ELSE IF neighbors(G, n0) = <<>>
                 THEN {[n1 |-> n0, move |-> "worst", exc |-> "IndexError"]}
                 ELSE {[n1 |-> m, move |-> "worst", exc |-> ""] :
                         m \in {x \in Range(neighbors(G, n0)) :
                                  \A y \in Range(neighbors(G, n0)) :
                                      metric(y) <= metric(x)}}
        random == IF n0 \notin Nodes(G)
                  THEN {[n1 |-> n0, move |-> "random", exc |-> "NetworkXError"]}
                  ELSE IF neighbors(G, n0) = <<>>
                  THEN {[n1 |-> n0, move |-> "random", exc |-> "ValueError"]}
                  ELSE {[n1 |-> m, move |-> "random", exc |-> ""] :
                          m \in Range(neighbors(G, n0))}
    IN  (IF \E r \in Draws : r < pcv THEN worst ELSE {})
        \cup (IF \E r \in Draws : ~(r < pcv) THEN random ELSE {})

\* lines 194-200: where the ant standing on n0 can go.  nx.neighbors raises
\* NetworkXError for a node that is not in the graph; with no neighbour,
\* adj_nodes[:,1] raises IndexError and np.random.choice([]) ValueError.
moves(G, col, cst, n0, o2, pcv) ==
    LET worst == IF n0 \notin Nodes(G)
                 THEN {[n1 |-> n0, move |-> "worst", exc |-> "NetworkXError"]}
                 ELSE IF neighbors(G, n0) = <<>>
                 THEN {[n1 |-> n0, move |-> "worst", exc |-> "IndexError"]}
                 ELSE {[n1 |-> worst_adjacent_node(G, col, cst, n0, o2),
                        move |-> "worst", exc |-> ""]}
        random == IF n0 \notin Nodes(G)
                  THEN {[n1 |-> n0, move |-> "random", exc |-> "NetworkXError"]}
                  ELSE IF neighbors(G, n0) = <<>>
                  THEN {[n1 |-> n0, move |-> "random", exc |-> "ValueError"]}
                  ELSE {[n1 |-> m, move |-> "random", exc |-> ""] :
                          m \in Range(neighbors(G, n0))}
    IN  (IF \E r \in Draws : r < pcv THEN worst ELSE {})
        \cup (IF \E r \in Draws : ~(r < pcv) THEN random ELSE {})

\* lines 202-207: the colourings the recolouring of n1 can leave.  With
\* n_colors <= 0, argmin of an empty array and np.random.choice of an empty
\* range raise ValueError and the colouring is as before.
recolorings(G, col, n1, nc, o2, pnv) ==
    LET best == IF nc <= 0
                THEN {[color |-> col, paint |-> "best", exc |-> "ValueError"]}
                ELSE {[color |-> change_to_best(G, col, n1, nc, o2),
                       paint |-> "best", exc |-> ""]}
        random == IF nc <= 0
                  THEN {[color |-> col, paint |-> "random", exc |-> "ValueError"]}
                  ELSE {[color |-> c, paint |-> "random", exc |-> ""] :
                          c \in change_to_random(col, n1, nc)}
    IN  (IF \E r \in Draws : r < pnv THEN best ELSE {})
        \cup (IF \E r \in Draws : ~(r < pnv) THEN random ELSE {})

\* lines 194-210, the body of the for loop for one ant: every outcome of the
\* move, the recolouring and the refresh of the cached costs.  An exception
\* leaves what was assigned before it.
ant_step(G, col, cst, positions, ant, nc, o2, pcv, pnv) ==
    LET n0 == positions[ant]
        moved(m) == [positions EXCEPT ![ant] = m.n1]
        failed_moves ==
            {[ants |-> positions, color |-> col, cost |-> cst, n0 |-> n0,
              n1 |-> m.n1, move |-> m.move, paint |-> "", exc |-> m.exc] :
               m \in {x \in moves(G, col, cst, n0, o2, pcv) : x.exc # ""}}
        after_move(m) ==
            {[ants |-> moved(m), color |-> p.color,
              cost |-> IF p.exc = "" THEN refresh_costs(G, p.color, cst, m.n1)
                       ELSE cst,
              n0 |-> n0, n1 |-> m.n1, move |-> m.move, paint |-> p.paint,
              exc |-> p.exc] :
               p \in recolorings(G, col, m.n1, nc, o2, pnv)}
    IN  failed_moves \cup
        UNION {after_move(m) :
                 m \in {x \in moves(G, col, cst, n0, o2, pcv) : x.exc = ""}}

(* ------------------------------- state -------------------------------- *)

VARIABLES
    args,       \* the arguments of AntSolver(...), until the constructor ends
    at,         \* where the program is: new, failed (__init__ raised), ready,
                \* while, for, done, raised (solve raised)
    exc,        \* the exception that ended it ("" while none)
    g,          \* self.g: the nodes and edges of the copied graph
    n_colors,   \* self.n_colors
    n_ants,     \* self.n_ants
    pc,         \* self.pc, in tenths
    pn,         \* self.pn, in tenths
    max_iters,  \* self.max_iters
    max_time,   \* self.max_time
    order_2,    \* self.order_2
    color,      \* self.g.node[n]['color']
    cost,       \* self.g.node[n]['cost']
    ants,       \* self.ants
    best,       \* self.best: the node attributes of the copied graph
    cost_best,  \* self.cost_best
    curr_cost,  \* self.curr_cost
    i,          \* self.i
    ant_i,      \* self._ant_i, the index of the ant the for loop is at
    elapsed,    \* the last reading of perf_counter()-tic
    sweeps,     \* history: the sweeps completed in this run of solve
    min_seen    \* history: the least total cost seen at init and sweep ends

\* the fields __init__ copies from its arguments
config == <<g, n_colors, n_ants, pc, pn, max_iters, max_time, order_2>>

\* the fields the sweeps work on
solver == <<color, cost, ants, best, cost_best, curr_cost>>

vars == <<args, at, exc, config, solver, i, ant_i, elapsed, sweeps, min_seen>>

Min(a, b) == IF a <= b THEN a ELSE b

\* the value of a field that is not set, and of args once __init__ is over
Unset == <<>>

\* the arguments of the constructor (lines 56-66), for the graphs of GS.  A
\* graph handed over with pre_colored=True carries a colour on every node;
\* with pre_colored=False its colours are overwritten and are not modelled.
Arguments(GS) ==
    {a \in [g : GS, n_colors : {None} \cup {<<c>> : c \in 0 .. MaxColors},
            n_ants : 0 .. MaxAnts, pre_colored : BOOLEAN,
            probabilities : Probabilities, max_iters : Iterations,
            max_time : MaxTimes, order_2 : BOOLEAN,
            coloring : UNION {[Nodes(G) -> 0 .. (MaxColors - 1)] : G \in GS}
                       \cup {Unset}] :
        a.coloring \in (IF a.pre_colored
                        THEN [Nodes(a.g) -> 0 .. (MaxColors - 1)] ELSE {Unset})}

\* before AntSolver(...) is called: no field is set
NotConstructed ==
    /\ at = "new"
    /\ exc = ""
    /\ g = Unset
    /\ n_colors = 0
    /\ n_ants = 0
    /\ pc = 0
    /\ pn = 0
    /\ max_iters = 0
    /\ max_time = 0
    /\ order_2 = FALSE
    /\ color = Unset
    /\ cost = Unset
    /\ ants = Unset
    /\ best = [color |-> Unset, cost |-> Unset]
    /\ cost_best = 0
    /\ curr_cost = 0
    /\ i = 0
    /\ ant_i = 0
    /\ elapsed = 0
    /\ sweeps = 0
    /\ min_seen = 0

Init == args \in Arguments(Graphs) /\ NotConstructed

InitMoreGraphs == args \in Arguments(MoreGraphs) /\ NotConstructed

(* ---------------------------- construction --------------------------- *)

\* random_node_coloring(g, n) (lines 87-97): the colourings it can leave; the
\* empty set when np.random.choice(colors) raises because colors is empty
random_node_coloring(G, n) ==
    LET nc == IF n = None \/ n[1] > max_c(G) THEN max_c(G) ELSE n[1]
    IN  IF nc <= 0 THEN {} ELSE [Nodes(G) -> 0 .. (nc - 1)]

\* line 127: np.random.choice(np.arange(n), n, replace=False), a random
\* order of 0..n-1.  For n = 0 older numpy raises ValueError and newer numpy
\* gives the empty array: both are outcomes.
initial_ants(n) ==
    IF n = 0 THEN {<<>>} ELSE Permutations(0 .. (n - 1))

\* an initialization that counts the neighbours of another colour
initial_costs_of_other_colour(G, col) ==
    [n \in Nodes(G) |-> Len(neighbors(G, n)) - conflict_level(G, col, n)]

\* lines 129-130: the cost of every node is its conflict level
initial_costs(G, col) == [n \in Nodes(G) |-> conflict_level(G, col, n)]

\* line 73
init_n_colors(a) ==
    IF a.n_colors = None THEN max_c(a.g) ELSE a.n_colors[1]

\* line 76
init_n_ants(a) == Min(a.n_ants, number_of_nodes(a.g))

\* the test of line 81 the other way round: a supplied colouring is drawn
\* over, and none is drawn when there is none
init_colorings_flag_inverted(a) ==
    IF ~a.pre_colored THEN {a.coloring}
    ELSE random_node_coloring(a.g, <<init_n_colors(a)>>)

\* lines 79-82: the colourings of self.g when init_solver is called; none
\* when random_node_coloring raises
init_colorings(a) ==
    IF a.pre_colored THEN {a.coloring}
    ELSE random_node_coloring(a.g, <<init_n_colors(a)>>)

\* __init__ (lines 68-83) with init_solver (lines 124-134), when it returns
Construct ==
    /\ at = "new"
    /\ g' = args.g
    /\ n_colors' = init_n_colors(args)
    /\ n_ants' = init_n_ants(args)
    /\ pc' = args.probabilities[1]
    /\ pn' = args.probabilities[2]
    /\ max_iters' = args.max_iters
    /\ max_time' = args.max_time
    /\ order_2' = args.order_2
    /\ color' \in init_colorings(args)
    /\ ants' \in initial_ants(n_ants')
    /\ cost' = initial_costs(g', color')
    /\ best' = [color |-> color', cost |-> cost']
    /\ cost_best' = total_cost(g', cost')
    /\ curr_cost' = cost_best'
    /\ min_seen' = total_cost(g', cost')
    /\ i' = 0
    /\ args' = Unset
    /\ at' = "ready"
    /\ UNCHANGED <<exc, ant_i, elapsed, sweeps>>

\* __init__ when numpy raises: random_node_coloring with no colour to draw
\* from (line 96), or init_solver with no ant to place (line 127, older
\* numpy).  No solver comes into being.
ConstructRaises ==
    /\ at = "new"
    /\ \/ init_colorings(args) = {}
       \/ init_colorings(args) # {} /\ init_n_ants(args) = 0
    /\ at' = "failed"
    /\ exc' = "ValueError"
    /\ args' = Unset
    /\ UNCHANGED <<config, solver, i, ant_i, elapsed, sweeps, min_seen>>

(* -------------------------------- solve ------------------------------- *)

\* solve, lines 181-187: tic is read and the counter reset
Solve ==
    /\ at = "ready"
    /\ i' = 0
    /\ elapsed' = 0
    /\ sweeps' = 0
    /\ at' = "while"
    /\ UNCHANGED <<args, exc, config, solver, ant_i, min_seen>>

\* line 189, the while condition holds: a sweep begins (line 190)
WhileEnter ==
    /\ at = "while"
    /\ sweeps < MaxSweeps
    /\ cost_best > 0
    /\ i < max_iters
    /\ \E t \in Readings :
          /\ t >= elapsed
          /\ t < max_time
          /\ elapsed' = t
    /\ ant_i' = 0
    /\ at' = "for"
    /\ UNCHANGED <<args, exc, config, solver, i, sweeps, min_seen>>

\* line 189, the while condition fails: solve ends (lines 221-222 only print).
\* The clock is read only when the first two conjuncts hold.
WhileExit ==
    /\ at = "while"
    /\ \/ /\ ~(cost_best > 0 /\ i < max_iters)
          /\ elapsed' = elapsed
       \/ /\ cost_best > 0 /\ i < max_iters
          /\ \E t \in Readings :
                /\ t >= elapsed
                /\ ~(t < max_time)
                /\ elapsed' = t
    /\ at' = "done"
    /\ UNCHANGED <<args, exc, config, solver, i, ant_i, sweeps, min_seen>>

\* an ant step on a best graph that shares its node attributes with self.g
\* (self.best = self.g without .copy()): every write reaches the best graph
AntStep_on_shared_best ==
    /\ at = "for"
    /\ ant_i < n_ants
    /\ \E o \in ant_step(g, color, cost, ants, ant_i, n_colors, order_2,
                         pc, pn) :
          /\ o.exc = ""
          /\ ants' = o.ants
          /\ color' = o.color
          /\ cost' = o.cost
    /\ best' = [color |-> color', cost |-> cost']
    /\ ant_i' = ant_i + 1
    /\ UNCHANGED <<args, at, exc, config, cost_best, curr_cost, i,
                   elapsed, sweeps, min_seen>>

\* lines 191-212: one ant moves, recolours the node it lands on and the
\* cached costs around it are refreshed
AntStep ==
    /\ at = "for"
    /\ ant_i < n_ants
    /\ \E o \in ant_step(g, color, cost, ants, ant_i, n_colors, order_2,
                         pc, pn) :
          /\ o.exc = ""
          /\ ants' = o.ants
          /\ color' = o.color
          /\ cost' = o.cost
    /\ ant_i' = ant_i + 1
    /\ UNCHANGED <<args, at, exc, config, best, cost_best, curr_cost, i,
                   elapsed, sweeps, min_seen>>

\* lines 194-207 when the step raises: solve is left by the exception
AntStepRaises ==
    /\ at = "for"
    /\ ant_i < n_ants
    /\ \E o \in ant_step(g, color, cost, ants, ant_i, n_colors, order_2,
                         pc, pn) :
          /\ o.exc # ""
          /\ ants' = o.ants
          /\ color' = o.color
          /\ cost' = o.cost
          /\ exc' = o.exc
    /\ at' = "raised"
    /\ UNCHANGED <<args, config, best, cost_best, curr_cost, i, ant_i,
                   elapsed, sweeps, min_seen>>

\* a comparison that also replaces the best graph on a tie
update_best_on_tie(b, cb, col, cst, cc) ==
    IF cc <= cb THEN [best |-> [color |-> col, cost |-> cst], cost_best |-> cc]
    ELSE [best |-> b, cost_best |-> cb]

\* no comparison: the best graph is the graph of the last sweep
update_best_always(b, cb, col, cst, cc) ==
    [best |-> [color |-> col, cost |-> cst], cost_best |-> cc]

\* an update that records the lower cost and keeps the old best graph
update_best_cost_only(b, cb, col, cst, cc) ==
    IF cc < cb THEN [best |-> b, cost_best |-> cc]
    ELSE [best |-> b, cost_best |-> cb]

\* lines 214-216: the best graph and its cost after the comparison
update_best(b, cb, col, cst, cc) ==
    IF cc < cb THEN [best |-> [color |-> col, cost |-> cst], cost_best |-> cc]
    ELSE [best |-> b, cost_best |-> cb]

\* lines 213-220, after the last ant: the total cost is taken, the best graph
\* replaced on improvement, and the loop left on cost 0 or on time.  The
\* statement self.i += 1 (line 220) follows break in the same block and is
\* never executed.
SweepEnd ==
    /\ at = "for"
    /\ ant_i = n_ants
    /\ curr_cost' = total_cost(g, cost)
    /\ LET u == update_best(best, cost_best, color, cost, curr_cost')
       IN  /\ best' = u.best
           /\ cost_best' = u.cost_best
    /\ \/ /\ cost_best' = 0
          /\ elapsed' = elapsed
          /\ at' = "done"
       \/ /\ cost_best' # 0
          /\ \E t \in Readings :
                /\ t >= elapsed
                /\ elapsed' = t
                /\ at' = IF t > max_time THEN "done" ELSE "while"
    /\ i' = i
    /\ sweeps' = sweeps + 1
    /\ min_seen' = Min(min_seen, curr_cost')
    /\ UNCHANGED <<args, exc, config, color, cost, ants, ant_i>>

Next ==
    \/ Construct
    \/ ConstructRaises
    \/ Solve
    \/ WhileEnter
    \/ WhileExit
    \/ AntStep
    \/ AntStepRaises
    \/ SweepEnd

Spec == Init /\ [][Next]_vars

\* the same program on the graphs of MoreGraphs
SpecMoreGraphs == InitMoreGraphs /\ [][Next]_vars

(* ------------------------------ the claims ---------------------------- *)

\* a solver exists: __init__ has returned
Constructed == at \in {"ready", "while", "for", "done", "raised"}

\* the solver was given a configuration the interface allows: n_colors >= 1,
\* n_ants >= 1, pc and pn inside (0, 1)
ValidConfiguration ==
    /\ Constructed
    /\ n_colors >= 1
    /\ n_ants >= 1
    /\ 0 < pc /\ pc < 10
    /\ 0 < pn /\ pn < 10

\* the edges of G whose two ends have the same colour in col
conflicting_edges(G, col) ==
    {e \in {{n, m} : n \in Nodes(G), m \in Nodes(G)} :
        \E n \in e : \E m \in e :
            /\ n # m
            /\ m \in Range(G.adj[n])
            /\ e = {n, m}
            /\ col[n] = col[m]}

\* C1: after init_solver and after every ant step, the cached cost of every
\* node is the number of its neighbours that have its colour.
C1_CachedCostExact ==
    Constructed =>
        \A n \in Nodes(g) :
            cost[n] = Cardinality({k \in 1 .. Len(g.adj[n]) :
                                     color[g.adj[n][k]] = color[n]})

\* C1 witness: inside a sweep, an ant has recoloured a node and conflicts
\* remain
C1_Witness ==
    /\ at = "for"
    /\ ant_i >= 1
    /\ color # best.color
    /\ \E n \in Nodes(g) : cost[n] > 0

\* C2: total_cost() is even and is twice the number of edges whose ends have
\* the same colour.
C2_CostParity ==
    Constructed =>
        /\ total_cost(g, cost) % 2 = 0
        /\ total_cost(g, cost) = 2 * Cardinality(conflicting_edges(g, color))

\* C2 witness: after a sweep, two edges are in conflict
C2_Witness ==
    /\ at = "while"
    /\ sweeps >= 1
    /\ Cardinality(conflicting_edges(g, color)) = 2
    /\ total_cost(g, cost) = 4

\* C3: from the end of construction on, every node's colour is in
\* [0, n_colors) (stated for the configurations the interface allows).
C3_ColorInRange ==
    ValidConfiguration =>
        \A n \in Nodes(g) : color[n] \in 0 .. (n_colors - 1)

\* C4: cost_best is the least total cost seen at initialization and at the
\* sweep ends, and the best graph changes only at a sweep end with
\* curr_cost < cost_best, never on a tie or a worse cost.
C4_BestCostTracking ==
    /\ [](Constructed => cost_best = min_seen)
    /\ [][at # "new" =>
            /\ (best' # best \/ cost_best' # cost_best) =>
                  (sweeps' = sweeps + 1 /\ curr_cost' < cost_best)
            /\ (sweeps' = sweeps + 1 /\ curr_cost' < cost_best) =>
                  (best' = [color |-> color, cost |-> cost]
                     /\ cost_best' = curr_cost')]_vars

\* C4 witness: a sweep ended on a tie with another colouring than the best
C4_Witness ==
    /\ at \in {"while", "done"}
    /\ sweeps >= 1
    /\ curr_cost = cost_best
    /\ color # best.color

\* C5: once the solver exists, cost_best never increases, whatever the step.
C5_CostBestNeverIncreases ==
    [][at # "new" => cost_best' <= cost_best]_vars

\* C5 witness: a sweep ended with a total cost above cost_best
C5_Witness ==
    /\ at \in {"while", "done"}
    /\ sweeps >= 1
    /\ curr_cost > cost_best

\* C6: the counter self.i is the number of sweeps completed in this run of
\* solve (stated for the configurations the interface allows).
C6_CounterCountsSweeps ==
    ValidConfiguration /\ at \in {"while", "for", "done"} => i = sweeps

\* C7: solve never performs more than max_iters sweeps (stated for the
\* configurations the interface allows).
C7_AtMostMaxItersSweeps ==
    ValidConfiguration /\ at \in {"while", "for", "done"} =>
        sweeps <= max_iters

\* G has a proper colouring with two colours
is_bipartite(G) ==
    \E f \in [Nodes(G) -> {0, 1}] : conflicting_edges(G, f) = {}

\* the states [color, cost, ants] a sweep can be in after its last ant, from
\* the states S it can be in before ant k; a step that raises ends the run
RECURSIVE rest_of_sweep(_, _)
rest_of_sweep(S, k) ==
    IF k >= n_ants THEN S
    ELSE rest_of_sweep(
           UNION {{[color |-> o.color, cost |-> o.cost, ants |-> o.ants] :
                     o \in {x \in ant_step(g, s.color, s.cost, s.ants, k,
                                           n_colors, order_2, pc, pn) :
                              x.exc = ""}} : s \in S},
           k + 1)

\* some sequence of sweeps leads from a sweep end in F to a sweep end of
\* total cost 0 (seen: the sweep ends already looked at)
RECURSIVE zero_cost_reachable(_, _)
zero_cost_reachable(F, seen) ==
    IF \E s \in F : total_cost(g, s.cost) = 0 THEN TRUE
    ELSE LET after == UNION {rest_of_sweep({s}, 0) : s \in F} \ seen
         IN  IF after = {} THEN FALSE
             ELSE zero_cost_reachable(after, seen \cup after)

\* C8: on a bipartite graph with n_colors = 2, at least one ant and pc, pn
\* inside (0, 1), a run that no budget stops reaches cost_best = 0: from
\* every state of the run a sweep end of total cost 0 can still be reached.
C8_BipartiteConverges ==
    (/\ at \in {"ready", "while", "for", "raised"}
     /\ ValidConfiguration
     /\ is_bipartite(g) /\ n_colors = 2 /\ max_iters >= 1
     /\ cost_best > 0) =>
        /\ at # "raised"
        /\ LET here == {[color |-> color, cost |-> cost, ants |-> ants]}
               F == IF at = "for" THEN rest_of_sweep(here, ant_i)
                    ELSE rest_of_sweep(here, 0)
           IN  zero_cost_reachable(F, F)

\* the same for the connected path 0-1-2 alone, where it holds
C8_OnPath3 == g = Path3 => C8_BipartiteConverges

\* C9: there are min(requested n_ants, node count) ants, their first
\* positions are pairwise distinct, and every position is always a node.
C9_AntsOnNodes ==
    /\ [][at = "new" /\ at' = "ready" =>
            /\ DOMAIN ants' = 0 .. (Min(args.n_ants, Len(args.g.nodes)) - 1)
            /\ \A a \in DOMAIN ants' : \A b \in DOMAIN ants' :
                  a # b => ants'[a] # ants'[b]]_vars
    /\ [](ValidConfiguration => \A a \in DOMAIN ants : ants[a] \in Nodes(g))

\* the constructor arguments the specification calls a configuration error
bad_configuration(a) ==
    \/ a.n_colors # None /\ a.n_colors[1] < 1
    \/ a.n_ants < 1
    \/ ~(0 < a.probabilities[1] /\ a.probabilities[1] < 10)
    \/ ~(0 < a.probabilities[2] /\ a.probabilities[2] < 10)

\* C10: with n_colors < 1, n_ants < 1, or pc or pn outside (0, 1), the
\* constructor fails and no solver comes into being (n_ants = 0 is left to
\* numpy, whose answer depends on its version, and is not looked at here).
C10_BadConfigurationFails ==
    [][at = "new" /\ args.n_ants # 0 /\ bad_configuration(args) =>
          at' = "failed"]_vars

\* the step of the ant the for loop is at failed because the node it stands
\* on has no neighbour (lines 116 and 200)
isolated_node_error ==
    /\ at = "raised"
    /\ exc \in {"IndexError", "ValueError"}
    /\ ants[ant_i] \in Nodes(g)
    /\ neighbors(g, ants[ant_i]) = <<>>

\* C11: the error for an ant on a node without neighbours is raised before
\* any sweep begins: when it is reported no ant has stepped, and the colours
\* and cached costs are those of construction (which the best graph still
\* holds while no sweep has ended).
C11_IsolatedErrorBeforeSweeps ==
    ValidConfiguration /\ isolated_node_error =>
        /\ sweeps = 0
        /\ ant_i = 0
        /\ color = best.color
        /\ cost = best.cost

\* C12: the best graph is a copy of its own: a step that changes the live
\* colouring, the cached costs or an ant's position leaves the best graph and
\* cost_best as they are, and when the best graph changes it is replaced as
\* a whole by the live graph of a sweep end with curr_cost < cost_best.
C12_BestSnapshotIndependent ==
    [][Constructed =>
          /\ (color' # color \/ cost' # cost \/ ants' # ants) =>
                (best' = best /\ cost_best' = cost_best)
          /\ best' # best =>
                /\ at = "for" /\ ant_i = n_ants
                /\ total_cost(g, cost) < cost_best
                /\ best'.color = color /\ best'.cost = cost
                /\ color' = color /\ cost' = cost]_vars

\* C12 witness: in a later sweep the live colouring has moved away from the
\* best graph, at a higher total cost
C12_Witness ==
    /\ at = "for"
    /\ sweeps >= 1
    /\ ant_i >= 1
    /\ color # best.color
    /\ total_cost(g, cost) > cost_best

edgeless(G) == Nodes(G) # {} /\ \A n \in Nodes(G) : neighbors(G, n) = <<>>

\* C14: on a graph without edges cost_best is 0 right after initialization,
\* whatever the colouring, and solve ends at its first test of the while
\* condition: no sweep, no ant step, no recolouring.
C14_TrivialConvergence ==
    /\ [](Constructed /\ edgeless(g) =>
            /\ cost_best = 0
            /\ at \in {"ready", "while", "done"}
            /\ sweeps = 0
            /\ color = best.color)
    /\ [][Constructed /\ edgeless(g) =>
            UNCHANGED <<color, cost, ants, best, cost_best>>]_vars
    /\ [][at = "while" /\ edgeless(g) => at' = "done"]_vars

\* C14 witness: solve has ended on the graph without edges, its two nodes of
\* the same colour
C14_Witness ==
    /\ at = "done"
    /\ edgeless(g)
    /\ color[0] = color[1]
    /\ n_ants >= 1

\* two outcomes of an ant step come from the same random draws: the same
\* branch of line 195, the same neighbour drawn at line 200, the same branch
\* of line 202 and the same colour drawn at line 156
same_draws(o1, o2) ==
    /\ o1.move = o2.move
    /\ o1.move = "random" => o1.n1 = o2.n1
    /\ o1.paint = o2.paint
    /\ o1.paint = "random" => o1.color[o1.n1] = o2.color[o2.n1]

\* C15: two runs with the same draws go through the same states.  Step by
\* step: from one state, two ant steps with the same draws end in the same
\* positions, colouring and cached costs (or the same exception); and with
\* the time budget not reached the steps of the loop control are decided by
\* the state alone.
C15_Determinism ==
    /\ [](at = "for" /\ ant_i < n_ants =>
            \A o1, o2 \in ant_step(g, color, cost, ants, ant_i, n_colors,
                                   order_2, pc, pn) :
                same_draws(o1, o2) => o1 = o2)
    /\ [][at = "while" /\ elapsed' < max_time =>
            at' = IF cost_best > 0 /\ i < max_iters THEN "for" ELSE "done"]_vars
    /\ [][at = "for" /\ ant_i = n_ants /\ elapsed' <= max_time =>
            /\ curr_cost' = total_cost(g, cost)
            /\ cost_best' = Min(cost_best, curr_cost')
            /\ best' = IF curr_cost' < cost_best
                       THEN [color |-> color, cost |-> cost] ELSE best
            /\ at' = IF cost_best' = 0 THEN "done" ELSE "while"]_vars

\* C15 witness: in a later sweep an ant on the middle node of the path has
\* two neighbours of the same cached cost to choose from
C15_Witness ==
    /\ at = "for"
    /\ ant_i < n_ants
    /\ sweeps >= 1
    /\ g = Path3
    /\ ants[ant_i] = 1
    /\ cost[0] = cost[2]
    /\ 0 < pc /\ pc < 10

\* m is the first neighbour of n0, in iteration order, whose cached cost is
\* the greatest among the neighbours of n0
first_of_greatest_cost(m, n0) ==
    \E k \in 1 .. Len(neighbors(g, n0)) :
        /\ neighbors(g, n0)[k] = m
        /\ \A j \in 1 .. Len(neighbors(g, n0)) :
              cost[neighbors(g, n0)[j]] <= cost[m]
        /\ \A j \in 1 .. (k - 1) : cost[neighbors(g, n0)[j]] < cost[m]

\* C16: an ant step takes the ant from n0 to a neighbour n1 of n0; on the
\* worst-neighbour branch with order_2 off, n1 is the first neighbour of
\* greatest cached cost; on the random branch every neighbour can be n1.
C16_MovesAlongEdges ==
    /\ [][at = "for" /\ ant_i' = ant_i + 1 =>
            /\ ants[ant_i] \in Nodes(g)
            /\ ants'[ant_i] \in Range(neighbors(g, ants[ant_i]))]_vars
    /\ [](at = "for" /\ ant_i < n_ants =>
            LET outcomes == {o \in ant_step(g, color, cost, ants, ant_i,
                                            n_colors, order_2, pc, pn) :
                               o.exc = ""}
            IN  /\ \A o \in outcomes :
                      /\ o.n0 = ants[ant_i]
                      /\ o.ants[ant_i] = o.n1
                      /\ o.n1 \in Range(neighbors(g, o.n0))
                      /\ (o.move = "worst" /\ ~order_2) =>
                              first_of_greatest_cost(o.n1, o.n0)
                /\ (outcomes # {} /\ pc < 10) =>
                      \A m \in Range(neighbors(g, ants[ant_i])) :
                          \E o \in outcomes : o.move = "random" /\ o.n1 = m)

\* C16 witness: after a first ant has stepped, the second stands on the
\* middle node of the path, between two neighbours of the same cost above 0
C16_Witness ==
    /\ at = "for"
    /\ ant_i = 1
    /\ n_ants = 2
    /\ ~order_2
    /\ pc = 5
    /\ g = Path3
    /\ ants[1] = 1
    /\ cost[0] = cost[2]
    /\ cost[2] > 0

\* how many neighbours of n have colour c in the colouring col
neighbours_of_colour(n, c, col) ==
    Cardinality({k \in 1 .. Len(neighbors(g, n)) : col[neighbors(g, n)[k]] = c})

\* C17: on the best-colour branch with order_2 off, n1 gets the smallest
\* colour of [0, n_colors) that the fewest neighbours of n1 have, the
\* neighbours keeping the colours they had before the step; afterwards the
\* conflict level of n1 is the least any colour gives, and 0 when n_colors
\* exceeds the number of colours among the neighbours of n1.
C17_BestColorChoice ==
    (at = "for" /\ ant_i < n_ants /\ ~order_2) =>
        \A o \in ant_step(g, color, cost, ants, ant_i, n_colors, order_2,
                          pc, pn) :
            (o.exc = "" /\ o.paint = "best") =>
                LET c == o.color[o.n1]
                    n(c1) == neighbours_of_colour(o.n1, c1, color)
                IN  /\ c \in 0 .. (n_colors - 1)
                    /\ \A c1 \in 0 .. (n_colors - 1) :
                          /\ n(c) <= n(c1)
                          /\ c1 < c => n(c) < n(c1)
                    /\ \A m \in Nodes(g) \ {o.n1} : o.color[m] = color[m]
                    /\ o.cost[o.n1] = n(c)
                    /\ neighbours_of_colour(o.n1, c, o.color) = n(c)
                    /\ n_colors > Cardinality({color[m] :
                                     m \in Range(neighbors(g, o.n1))}) =>
                          o.cost[o.n1] = 0

\* C17 witness: in a later sweep on the path, all of one colour and with
\* three colours to choose from, an ant is about to step from an end onto
\* the middle node, where two colours are free
C17_Witness ==
    /\ at = "for"
    /\ ant_i < n_ants
    /\ sweeps >= 1
    /\ ~order_2
    /\ pn = 5
    /\ n_colors = 3
    /\ g = Path3
    /\ ants[ant_i] = 0
    /\ color[0] = 0 /\ color[1] = 0 /\ color[2] = 0

\* C18: one ant step, completed or ended by an exception, changes the
\* position of its ant only, the colour of the node n1 it lands on at most,
\* and the cached costs of n1 and the neighbours of n1 at most; the graph,
\* the best graph, cost_best and the counters of sweeps stay as they are.
C18_AntStepFrame ==
    [][(at = "for" /\ (ant_i' = ant_i + 1 \/ at' = "raised")) =>
          LET n1 == ants'[ant_i]
              around == IF n1 \in Nodes(g)
                        THEN {n1} \cup Range(neighbors(g, n1)) ELSE {}
          IN  /\ \A a \in DOMAIN ants \ {ant_i} : ants'[a] = ants[a]
              /\ DOMAIN ants' = DOMAIN ants
              /\ \A m \in Nodes(g) \ {n1} : color'[m] = color[m]
              /\ \A m \in Nodes(g) \ around : cost'[m] = cost[m]
              /\ g' = g
              /\ best' = best
              /\ cost_best' = cost_best
              /\ i' = i
              /\ sweeps' = sweeps]_vars

\* C18 witness: the first ant of the first sweep has stepped and recoloured
\* the node it landed on; another ant has yet to step
C18_Witness ==
    /\ at = "for"
    /\ sweeps = 0
    /\ ant_i = 1
    /\ n_ants = 2
    /\ Cardinality({m \in Nodes(g) : color[m] # best.color[m]}) = 1
    /\ color[ants[0]] # best.color[ants[0]]
    /\ cost # best.cost

\* the greatest number of neighbours a node of G has
max_degree(G) ==
    CHOOSE d \in 0 .. Cardinality(Nodes(G)) :
        /\ \E n \in Nodes(G) : Len(neighbors(G, n)) = d
        /\ \A n \in Nodes(G) : Len(neighbors(G, n)) <= d

\* C19: with pre_colored false (and a configuration the interface allows),
\* the constructor can give every node every colour of [0, n_colors), also
\* for n_colors above max degree + 1, and no colour outside [0, n_colors);
\* n_colors, when not given, is max degree + 1.
C19_InitialColorsCoverRange ==
    (/\ at = "new"
     /\ ~args.pre_colored
     /\ ~bad_configuration(args)) =>
        LET nc == IF args.n_colors = None THEN max_degree(args.g) + 1
                  ELSE args.n_colors[1]
        IN  /\ \A n \in Nodes(args.g) : \A c \in 0 .. (nc - 1) :
                  ENABLED (Construct /\ n_colors' = nc /\ color'[n] = c)
            /\ \A n \in Nodes(args.g) :
                  ~ENABLED (Construct /\ color'[n] \notin 0 .. (nc - 1))

\* C20: cost_best is the sum of the cached costs of the best graph and twice
\* the number of its edges whose ends have the same colour; when solve ends
\* with cost_best = 0 the best colouring is proper and is the live colouring.
C20_BestSnapshotConsistent ==
    Constructed =>
        /\ cost_best = total_cost(g, best.cost)
        /\ cost_best = 2 * Cardinality(conflicting_edges(g, best.color))
        /\ (at = "done" /\ cost_best = 0) =>
              /\ \A n \in Nodes(g) : \A k \in 1 .. Len(neighbors(g, n)) :
                    best.color[n] # best.color[neighbors(g, n)[k]]
              /\ best.color = color

\* C20 witness: solve has ended with cost_best = 0 on the path after at
\* least one sweep
C20_Witness ==
    /\ at = "done"
    /\ cost_best = 0
    /\ sweeps >= 1
    /\ g = Path3
    /\ n_ants >= 1

====
